---- MODULE Spec2Model ----
(***************************************************************************)
(* WhatNow: a queue-based sequencer of asynchronous step handlers.         *)
(*                                                                         *)
(* The model follows JavaScript's run-to-completion semantics: one action  *)
(* is one task of the event loop.  A call of act or reset made by the      *)
(* application runs synchronously down to the first `await handler(...)`   *)
(* of processStep (or to the end of the call); the settling of a handler's *)
(* promise resumes the suspended processStep frame and runs it down to the *)
(* next await.  A handler calls act and reset through the capabilities it  *)
(* is given (the same bound methods), so a call made while a handler is in *)
(* flight stands for a call by that handler as well as by any other code.  *)
(* onChange and onError run inside the task that invokes them; what they   *)
(* do (nothing, act, reset) is an input of the action.                     *)
(*                                                                         *)
(* Besides the fields of the two classes the state holds observations:     *)
(* events (what the last task did, in order), chainLog (the starts and     *)
(* ends of chains, by item number), chain (the chain started last) and     *)
(* committed (the values left by the last commit), unnotified (the state   *)
(* updates committed so far minus the onChange calls made so far) and      *)
(* resetMark (the arrival number and the values at the last reset call).   *)
(***************************************************************************)
EXTENDS Integers, Sequences, FiniteSets, TLC

\* Bounds of the exploration: calls made by the application.
MaxActs == 3
MaxResets == 2

\* The value of a missing step (undefined processingStep / resettingStep).
NoStep == "none"
\* The empty payload {} and an absent state/context update.
NoPayload == -1
NoUpdate == -1
\* The increment carried by a payload, the initial count and total.
Increment == 5
InitialState == 0
InitialContext == 0

\* The step identifiers a caller can name; "ghost" has no table entry.
Steps == {"start", "middle", "unload", "end", "ghost"}
\* The payloads act is called with: start is the handler that reads one.
Payloads(step) == IF step = "start" THEN {NoPayload, Increment} ELSE {NoPayload}

\* The handler table: a handler or null (terminal).
steps == [start |-> "handler", middle |-> "handler",
          unload |-> "handler", end |-> "null"]

\* The table read with a missing entry taken for the terminal marker.
LookupLenient(step) == IF step \in DOMAIN steps THEN steps[step] ELSE "null"

\* The table read with the terminal marker taken for a handler.
LookupNoNull(step) == IF step \in DOMAIN steps THEN "handler" ELSE "undefined"

\* this.steps[nextStep]
Lookup(step) == IF step \in DOMAIN steps THEN steps[step] ELSE "undefined"

\* The value a handler's promise resolves to, from the arguments it was
\* invoked with: start sets the count from the payload, middle increments
\* the count, unload bumps the context total once and then returns no update.
Handler(step, args) ==
  CASE step = "start" ->
         [step |-> "middle",
          state |-> IF args.payload = NoPayload THEN 1 ELSE args.payload,
          context |-> NoUpdate]
    [] step = "middle" ->
         [step |-> "end", state |-> args.state + 1, context |-> NoUpdate]
    [] OTHER ->
         IF args.context = InitialContext
           THEN [step |-> "end", state |-> NoUpdate, context |-> args.context + 1]
           ELSE [step |-> "end", state |-> NoUpdate, context |-> NoUpdate]

\* A queued work item; id is the arrival number of the item at the queue.
NoItem == [id |-> 0, step |-> NoStep, payload |-> NoPayload, reset |-> FALSE]

\* What a callback (onChange, onError) does when it is invoked.
CbNone == [kind |-> "none", step |-> NoStep]
CbSteps == {"start", "unload"}
Callbacks == {CbNone} \cup [kind : {"act", "reset"}, step : CbSteps]

VARIABLES items, current, processingStep, resettingStep, state, context,
          inflight, nextId, nActs, nResets, events, chainLog, chain, committed,
          unnotified, resetMark

vars == <<items, current, processingStep, resettingStep, state, context,
          inflight, nextId, nActs, nResets, events, chainLog, chain,
          committed, unnotified, resetMark>>

\* No chain has started yet.
NoChain == [id |-> 0, first |-> NoStep, payload |-> NoPayload,
            invoked |-> <<>>, status |-> "none", reset |-> FALSE]

\* The machine as one value, at the start of a task.
M == [items |-> items, current |-> current,
      processingStep |-> processingStep, resettingStep |-> resettingStep,
      state |-> state, context |-> context, inflight |-> inflight,
      nextId |-> nextId, nActs |-> nActs, nResets |-> nResets,
      events |-> <<>>, chainLog |-> chainLog, chain |-> chain,
      committed |-> committed, unnotified |-> unnotified,
      resetMark |-> resetMark]

\* An observable event of a task.
Ev(ev, src, id, step, payload, st, ctx) ==
  [ev |-> ev, src |-> src, id |-> id, step |-> step, payload |-> payload,
   state |-> st, context |-> ctx]

Log(m, e) == [m EXCEPT !.events = Append(@, e)]

\* A chain starts: processStep has passed its guards for this item.
ChainStart(m, item) ==
  [m EXCEPT !.chainLog = Append(@, <<"start", item.id>>),
            !.chain = [id |-> item.id, first |-> item.step,
                       payload |-> item.payload, invoked |-> <<>>,
                       status |-> "running", reset |-> item.reset]]

\* A chain ends: "done", "abandon" or "error".
ChainEnd(m, id, how) ==
  [m EXCEPT !.chainLog = Append(@, <<how, id>>),
            !.chain = IF @.id = id THEN [@ EXCEPT !.status = how] ELSE @]

\* A handler of the chain is invoked.
ChainInvoke(m, id, step) ==
  [m EXCEPT !.chain = IF @.id = id
                        THEN [@ EXCEPT !.invoked = Append(@, step)] ELSE @]

RECURSIVE enqueue(_, _, _), next(_, _), done(_, _), processStep(_, _),
          RunLoop(_, _, _, _, _), Finish(_, _, _), Catch(_, _, _, _),
          act(_, _, _, _, _), ApplyCb(_, _, _)

\* Queue.clear dropping the pending items and keeping the current one.
clearKeepsCurrent(m) == [m EXCEPT !.items = <<>>]

\* Queue.clear forgetting the pending items.
clearKeepsItems(m) == [m EXCEPT !.current = NoItem]

\* Queue.clear
clear(m) == [m EXCEPT !.items = <<>>, !.current = NoItem]

\* A reset call observed: the frames in flight learn its target, and the
\* arrival number and the values at the call are remembered.
ResetSeen(m, resetStep, src) ==
  [Log(m, Ev("reset", src, m.nextId, resetStep, NoPayload, m.state, m.context))
     EXCEPT !.inflight = {[c EXCEPT !.superseded = TRUE,
                                    !.targets = @ \cup {resetStep}] : c \in @},
            !.resetMark = [id |-> m.nextId, state |-> m.state,
                           context |-> m.context]]

\* WhatNow.reset, as the older revision of the class had it: the target is
\* enqueued at once.
resetEager(m, resetStep, src, e) ==
  act(clear([ResetSeen(m, resetStep, src) EXCEPT !.processingStep = NoStep]),
      resetStep, NoPayload, "engine", e)

\* WhatNow.reset putting the state and the context back to the initial values.
resetToInitial(m, resetStep, src, e) ==
  clear([ResetSeen(m, resetStep, src)
           EXCEPT !.resettingStep = resetStep, !.processingStep = NoStep,
                  !.state = InitialState, !.context = InitialContext])

\* WhatNow.reset leaving the processing marker set.
resetKeepsMarker(m, resetStep, src, e) ==
  clear([ResetSeen(m, resetStep, src) EXCEPT !.resettingStep = resetStep])

\* WhatNow.reset leaving the queue as it is.
resetKeepsQueue(m, resetStep, src, e) ==
  [ResetSeen(m, resetStep, src)
     EXCEPT !.resettingStep = resetStep, !.processingStep = NoStep]

\* WhatNow.reset
reset(m, resetStep, src, e) ==
  clear([ResetSeen(m, resetStep, src)
           EXCEPT !.resettingStep = resetStep, !.processingStep = NoStep])

\* items.shift() taking the newest item instead of the oldest.
Pop(q) == [item |-> q[Len(q)], rest |-> SubSeq(q, 1, Len(q) - 1)]

\* items.shift(): the item taken and the items left.
Shift(q) == [item |-> Head(q), rest |-> Tail(q)]

\* Queue.next
next(m, e) ==
  IF m.current # NoItem \/ Len(m.items) = 0
    THEN m
    ELSE processStep([m EXCEPT !.current = Shift(m.items).item,
                               !.items = Shift(m.items).rest], e)

\* Queue.enqueue putting the item in front of the pending ones.
enqueueFront(m, item, e) ==
  LET m1 == [m EXCEPT !.items = <<item>> \o @]
  IN IF m1.current = NoItem THEN next(m1, e) ELSE m1

\* Queue.enqueue
enqueue(m, item, e) ==
  LET m1 == [m EXCEPT !.items = Append(@, item)]
  IN IF m1.current = NoItem THEN next(m1, e) ELSE m1

\* Queue.done
done(m, e) == next([m EXCEPT !.current = NoItem], e)

\* act without its check of resettingStep.
ActGateOff(m) == FALSE

\* act dropped also while a chain is being processed.
ActGateBusy(m) == m.resettingStep # NoStep \/ m.processingStep # NoStep

\* The drop condition of act.
ActGate(m) == m.resettingStep # NoStep

\* WhatNow.act
act(m, step, payload, src, e) ==
  IF ActGate(m)
    THEN Log(m, Ev("act", src, 0, step, payload, m.state, m.context))
    ELSE enqueue([Log(m, Ev("act", src, m.nextId, step, payload,
                            m.state, m.context))
                    EXCEPT !.nextId = @ + 1],
                 [id |-> m.nextId, step |-> step, payload |-> payload,
                  reset |-> (src = "engine")], e)

\* A callback running: it does nothing, or calls act or reset on the machine.
ApplyCb(m, cb, e) ==
  CASE cb.kind = "act" ->
         act([m EXCEPT !.nActs = @ + 1], cb.step, NoPayload, "callback", e)
    [] cb.kind = "reset" ->
         reset([m EXCEPT !.nResets = @ + 1], cb.step, "callback", e)
    [] OTHER -> m

\* The catch block leaving the processing marker set.
CatchKeepsMarker(m, id, step, e) ==
  ApplyCb(Log(ChainEnd(m, id, "error"),
              Ev("error", "engine", id, step, NoPayload, m.state, m.context)),
          e, e)

\* The catch block releasing the queue's current item.
CatchReleases(m, id, step, e) ==
  done(ApplyCb(Log(ChainEnd([m EXCEPT !.processingStep = NoStep], id, "error"),
                   Ev("error", "engine", id, step, NoPayload,
                      m.state, m.context)),
               e, e), e)

\* The catch block putting the state and the context back to the initial
\* values.
CatchRollsBack(m, id, step, e) ==
  ApplyCb(Log(ChainEnd([m EXCEPT !.processingStep = NoStep,
                                 !.state = InitialState,
                                 !.context = InitialContext], id, "error"),
              Ev("error", "engine", id, step, NoPayload, m.state, m.context)),
          e, e)

\* The catch block of processStep.
Catch(m, id, step, e) ==
  ApplyCb(Log(ChainEnd([m EXCEPT !.processingStep = NoStep], id, "error"),
              Ev("error", "engine", id, step, NoPayload, m.state, m.context)),
          e, e)

\* The end of processStep calling act before it clears resettingStep.
FinishActFirst(m, id, e) ==
  LET m1 == [m EXCEPT !.processingStep = NoStep]
  IN IF m1.resettingStep # NoStep
       THEN [act(ChainEnd(m1, id, "abandon"),
                 m1.resettingStep, NoPayload, "engine", e)
               EXCEPT !.resettingStep = NoStep]
       ELSE done(Log(ChainEnd(m1, id, "done"),
                     Ev("done", "engine", id, m1.current.step,
                        m1.current.id, m1.state, m1.context)), e)

\* The end of processStep calling done a second time.
FinishTwice(m, id, e) ==
  LET m1 == [m EXCEPT !.processingStep = NoStep]
  IN IF m1.resettingStep # NoStep
       THEN act(ChainEnd([m1 EXCEPT !.resettingStep = NoStep], id, "abandon"),
                m1.resettingStep, NoPayload, "engine", e)
       ELSE LET m2 == done(Log(ChainEnd(m1, id, "done"),
                               Ev("done", "engine", id, m1.current.step,
                                  m1.current.id, m1.state, m1.context)), e)
            IN done(Log(m2, Ev("done", "engine", id, m2.current.step,
                               m2.current.id, m2.state, m2.context)), e)

\* The end of processStep never releasing the current item of the queue.
FinishHolds(m, id, e) ==
  LET m1 == [m EXCEPT !.processingStep = NoStep]
  IN IF m1.resettingStep # NoStep
       THEN act(ChainEnd([m1 EXCEPT !.resettingStep = NoStep], id, "abandon"),
                m1.resettingStep, NoPayload, "engine", e)
       ELSE Log(ChainEnd(m1, id, "done"),
                Ev("done", "engine", id, m1.current.step,
                   m1.current.id, m1.state, m1.context))

\* The end of processStep calling done with the processing marker still set.
FinishKeepsMarker(m, id, e) ==
  IF m.resettingStep # NoStep
    THEN act(ChainEnd([m EXCEPT !.processingStep = NoStep,
                                !.resettingStep = NoStep], id, "abandon"),
             m.resettingStep, NoPayload, "engine", e)
    ELSE [done(Log(ChainEnd(m, id, "done"),
                   Ev("done", "engine", id, m.current.step,
                      m.current.id, m.state, m.context)), e)
            EXCEPT !.processingStep = NoStep]

\* The end of processStep after the loop.
Finish(m, id, e) ==
  LET m1 == [m EXCEPT !.processingStep = NoStep]
  IN IF m1.resettingStep # NoStep
       THEN act(ChainEnd([m1 EXCEPT !.resettingStep = NoStep], id, "abandon"),
                m1.resettingStep, NoPayload, "engine", e)
       ELSE done(Log(ChainEnd(m1, id, "done"),
                     Ev("done", "engine", id, m1.current.step,
                        m1.current.id, m1.state, m1.context)), e)

\* The handler invoked with the values the machine was constructed with.
HandlerArgsInitial(m, id, step, payload) ==
  [id |-> id, step |-> step, payload |-> payload,
   state |-> InitialState, context |-> InitialContext, superseded |-> FALSE,
   targets |-> {}]

\* The arguments a handler is invoked with (and whether a reset has been
\* requested since).
HandlerArgs(m, id, step, payload) ==
  [id |-> id, step |-> step, payload |-> payload,
   state |-> m.state, context |-> m.context, superseded |-> FALSE,
   targets |-> {}]

\* The loop taking the handler's state update before the handler has settled.
RunLoopSync(m, id, step, payload, e) ==
  CASE Lookup(step) = "null" -> Finish(m, id, e)
    [] Lookup(step) # "null" /\ m.resettingStep # NoStep ->
         Log(ChainEnd(m, id, "abandon"),
             Ev("abandon", "return", id, step, NoPayload, m.state, m.context))
    [] Lookup(step) = "undefined" /\ m.resettingStep = NoStep ->
         Catch(m, id, step, e)
    [] OTHER ->
         LET a == HandlerArgs(m, id, step, payload)
             r == Handler(step, a)
         IN [Log(ChainInvoke(m, id, step),
                 Ev("invoke", "engine", id, step, a.payload,
                    a.state, a.context))
               EXCEPT !.inflight = @ \cup {a},
                      !.state = IF r.state # NoUpdate THEN r.state ELSE @]

\* The head of the while loop: terminal check, reset check, invocation.
RunLoop(m, id, step, payload, e) ==
  CASE Lookup(step) = "null" -> Finish(m, id, e)
    [] Lookup(step) # "null" /\ m.resettingStep # NoStep ->
         Log(ChainEnd(m, id, "abandon"),
             Ev("abandon", "return", id, step, NoPayload, m.state, m.context))
    [] Lookup(step) = "undefined" /\ m.resettingStep = NoStep ->
         Catch(m, id, step, e)
    [] OTHER ->
         LET a == HandlerArgs(m, id, step, payload)
         IN [Log(ChainInvoke(m, id, step),
                 Ev("invoke", "engine", id, step, a.payload,
                    a.state, a.context))
               EXCEPT !.inflight = @ \cup {a}]

\* WhatNow.processStep up to its first await.
processStep(m, e) ==
  IF m.current = NoItem \/ m.processingStep = m.current.step
    THEN Log(m, Ev("skip", "guard", m.current.id, m.current.step,
                   NoPayload, m.state, m.context))
    ELSE IF m.resettingStep # NoStep /\ m.current.step # m.resettingStep
      THEN Log(m, Ev("skip", "gate", m.current.id, m.current.step,
                     NoPayload, m.state, m.context))
      ELSE RunLoop(Log(ChainStart([m EXCEPT !.resettingStep = NoStep,
                                            !.processingStep = m.current.step],
                                  m.current),
                       Ev("start", "engine", m.current.id, m.current.step,
                          m.current.payload, m.state, m.context)),
                   m.current.id, m.current.step, m.current.payload, e)

\* The result committed although a reset was requested.
ResetGateOff(m) == FALSE

\* The check after the await: a reset supersedes the result.
ResetGate(m) == m.resettingStep # NoStep

\* The payload handed on to the next iteration.
KeptPayload(payload) == payload

\* The payload of the next iteration (currentPayload = {}).
ClearedPayload(payload) == NoPayload

\* onChange notified of every update.
NotifiesAnyUpdate(result) ==
  result.state # NoUpdate \/ result.context # NoUpdate

\* Whether the commit notifies onChange.
NotifiesChange(result) == result.state # NoUpdate

\* The loop run again on the step just executed.
AdvanceStay(c, result) == c.step

\* The step of the next iteration (nextStep = result.step).
Advance(c, result) == result.step

\* The commit replacing the state by whatever the result holds, an absent
\* update included.
CommitWholesale(m, id, result, chg, e) ==
  LET m1 == IF result.context # NoUpdate
              THEN [m EXCEPT !.context = result.context,
                             !.committed.context = result.context]
              ELSE m
      m2 == IF result.state # NoUpdate
              THEN [m1 EXCEPT !.state = result.state,
                              !.committed.state = result.state,
                              !.unnotified = @ + 1]
              ELSE [m1 EXCEPT !.state = result.state]
      m3 == Log(m2, Ev("commit", "engine", id, result.step, NoPayload,
                       result.state, result.context))
  IN IF NotifiesChange(result)
       THEN ApplyCb(Log([m3 EXCEPT !.unnotified = @ - 1],
                        Ev("change", "engine", id, result.step,
                           NoPayload, m3.state, m3.context)), chg, e)
       ELSE m3

\* The commit of a result: context, then state and onChange.
Commit(m, id, result, chg, e) ==
  LET m1 == IF result.context # NoUpdate
              THEN [m EXCEPT !.context = result.context,
                             !.committed.context = result.context]
              ELSE m
      m2 == IF result.state # NoUpdate
              THEN [m1 EXCEPT !.state = result.state,
                              !.committed.state = result.state,
                              !.unnotified = @ + 1]
              ELSE m1
      m3 == Log(m2, Ev("commit", "engine", id, result.step, NoPayload,
                       result.state, result.context))
  IN IF NotifiesChange(result)
       THEN ApplyCb(Log([m3 EXCEPT !.unnotified = @ - 1],
                        Ev("change", "engine", id, result.step,
                           NoPayload, m3.state, m3.context)), chg, e)
       ELSE m3

\* The supersession of a result taken for a failure of the handler.
BreakThrows(m, c, e) == Catch(m, c.id, c.step, e)

\* The break out of the loop when a reset was requested during the await.
Break(m, c, e) ==
  Finish(Log(m, Ev("abandon", "break", c.id, c.step, NoPayload,
                   m.state, m.context)), c.id, e)

\* processStep resumed by the settling of the handler's promise.
Resume(m, c, ok, chg, e) ==
  LET m0 == [m EXCEPT !.inflight = @ \ {c}]
      how == IF c.superseded THEN "superseded" ELSE "live"
  IN IF ~ok
       THEN Catch(Log(m0, Ev("reject", how, c.id, c.step, c.payload,
                             c.state, c.context)), c.id, c.step, e)
       ELSE LET r == Handler(c.step, c)
                m1 == Log(m0, Ev("resolve", how, c.id, c.step,
                                 c.payload, c.state, c.context))
            IN IF ResetGate(m1)
                 THEN Break(m1, c, e)
                 ELSE RunLoop(Commit(m1, c.id, r, chg, e), c.id,
                              Advance(c, r), ClearedPayload(c.payload), e)

Set(m) ==
  /\ items' = m.items
  /\ current' = m.current
  /\ processingStep' = m.processingStep
  /\ resettingStep' = m.resettingStep
  /\ state' = m.state
  /\ context' = m.context
  /\ inflight' = m.inflight
  /\ nextId' = m.nextId
  /\ nActs' = m.nActs
  /\ nResets' = m.nResets
  /\ events' = m.events
  /\ chainLog' = m.chainLog
  /\ chain' = m.chain
  /\ committed' = m.committed
  /\ unnotified' = m.unnotified
  /\ resetMark' = m.resetMark

\* A callback may call act or reset only within the bounds.
CbAllowed(cb, used) ==
  /\ cb.kind = "act" => nActs + used < MaxActs
  /\ cb.kind = "reset" => nResets + used < MaxResets

\* A callback's behaviour is an input only of a task that invokes it.
Fires(m, ev) == \E i \in 1..Len(m.events) : m.events[i].ev = ev

Init ==
  /\ items = <<>>
  /\ current = NoItem
  /\ processingStep = NoStep
  /\ resettingStep = NoStep
  /\ state = InitialState
  /\ context = InitialContext
  /\ inflight = {}
  /\ nextId = 1
  /\ nActs = 0
  /\ nResets = 0
  /\ events = <<>>
  /\ chainLog = <<>>
  /\ chain = NoChain
  /\ committed = [state |-> InitialState, context |-> InitialContext]
  /\ unnotified = 0
  /\ resetMark = [id |-> 0, state |-> InitialState, context |-> InitialContext]

\* machine.act(step, payload), by the application or the handler in flight.
ActCall ==
  \E step \in Steps, e \in Callbacks : \E payload \in Payloads(step) :
    /\ nActs < MaxActs
    /\ CbAllowed(e, 1)
    /\ LET m == act([M EXCEPT !.nActs = @ + 1], step, payload, "caller", e)
       IN /\ e # CbNone => Fires(m, "error")
          /\ Set(m)

\* machine.reset(step), by the application or the handler in flight.
ResetCall ==
  \E step \in Steps :
    /\ nResets < MaxResets
    /\ Set(reset([M EXCEPT !.nResets = @ + 1], step, "caller", CbNone))

\* The promise of the handler in flight settles.
Settle ==
  \E c \in inflight, ok \in BOOLEAN, chg \in Callbacks, e \in Callbacks :
    /\ CbAllowed(chg, 0)
    /\ CbAllowed(e, 0)
    /\ LET m == Resume(M, c, ok, chg, e)
       IN /\ chg # CbNone => Fires(m, "change")
          /\ e # CbNone => Fires(m, "error")
          /\ Set(m)

Next == ActCall \/ ResetCall \/ Settle

Spec == Init /\ [][Next]_vars

\* The promise of the handler in flight is fulfilled, and onChange calls
\* nothing or act.
SettleReturn ==
  \E c \in inflight, chg \in {cb \in Callbacks : cb.kind # "reset"},
     e \in Callbacks :
    /\ CbAllowed(chg, 0)
    /\ CbAllowed(e, 0)
    /\ LET m == Resume(M, c, TRUE, chg, e)
       IN /\ chg # CbNone => Fires(m, "change")
          /\ e # CbNone => Fires(m, "error")
          /\ Set(m)

\* The machine whose handlers all return and on which reset is not called by
\* the application or by onChange.
ReturnNext == ActCall \/ SettleReturn

\* A handler's promise that has settled is resumed: the continuation of the
\* await is a job of the event loop, which runs every job it has.
FairSpec == Init /\ [][ReturnNext]_vars /\ WF_vars(Settle)

(***************************************************************************)
(* Observations used by the properties.                                    *)
(***************************************************************************)

\* No reset has been called and no chain has halted on a failure.
NoReset == nResets = 0
NoFailure == \A k \in 1..Len(chainLog) : chainLog[k][1] # "error"

\* The events of the last task of a given kind.
EventsOf(kind) == {i \in 1..Len(events) : events[i].ev = kind}

\* The chains that have started and have not ended.
Open ==
  {chainLog[k][2] : k \in {j \in 1..Len(chainLog) :
      /\ chainLog[j][1] = "start"
      /\ \A l \in (j + 1)..Len(chainLog) : chainLog[l][2] # chainLog[j][2]}}

\* The step a handler returns as next, and the steps on the next-step path
\* from a step up to the first terminal one.
NextOf(step) ==
  Handler(step, [payload |-> NoPayload, state |-> InitialState,
                 context |-> InitialContext]).step

RECURSIVE Path(_)
Path(step) ==
  IF Lookup(step) # "handler" THEN <<>> ELSE <<step>> \o Path(NextOf(step))

IsPrefix(p, q) == Len(p) <= Len(q) /\ SubSeq(q, 1, Len(p)) = p

(***************************************************************************)
(* C1: in every reachable state at most one handler invocation is in       *)
(* flight, whatever act/reset calls and handler completions came before.   *)
(***************************************************************************)
C1_SingleInvocation == Cardinality(inflight) <= 1

\* A handler is in flight after a reset was consumed, with items queued.
C1_Witness ==
  /\ Cardinality(inflight) = 1
  /\ nResets >= 1
  /\ Len(items) >= 1
  /\ \E k \in 1..Len(chainLog) : chainLog[k][1] = "abandon"

(***************************************************************************)
(* C2: with no reset and no failure the chains start and complete in the   *)
(* order of the act calls: the log of chain starts and ends is             *)
(* start 1, done 1, start 2, done 2, ... and a handler of the i-th item is *)
(* in flight only when the chains of all earlier items are done.           *)
(***************************************************************************)
C2_ActOrder ==
  (NoReset /\ NoFailure) =>
    /\ \A k \in 1..Len(chainLog) :
         chainLog[k] = IF k % 2 = 1 THEN <<"start", (k + 1) \div 2>>
                                    ELSE <<"done", k \div 2>>
    /\ \A c \in inflight :
         /\ c.id <= nActs
         /\ \A i \in 1..(c.id - 1) :
              \E k \in 1..Len(chainLog) : chainLog[k] = <<"done", i>>

\* Three act calls, the third chain running a handler after two completed.
C2_Witness ==
  /\ NoReset /\ NoFailure
  /\ \E c \in inflight : c.id = 3
  /\ Len(chainLog) = 5

(***************************************************************************)
(* C3: chains are never interleaved: a chain starts only when every chain  *)
(* started before has ended (terminal step, reset boundary or failure),    *)
(* and every handler invoked belongs to the one chain that is open.        *)
(***************************************************************************)
C3_NoInterleaving ==
  /\ \A k \in 1..Len(chainLog) :
       IF k % 2 = 1
         THEN chainLog[k][1] = "start"
         ELSE chainLog[k][1] # "start" /\ chainLog[k][2] = chainLog[k - 1][2]
  /\ \A i \in EventsOf("invoke") : Open = {events[i].id}
  /\ \A c \in inflight : Open = {c.id}

\* An item that waited behind a running chain starts in the task that ends
\* that chain.
C3_Witness ==
  \E i, j \in 1..Len(events) :
    /\ i < j
    /\ events[i].ev = "done"
    /\ events[j].ev = "invoke"
    /\ events[j].id > events[i].id

(***************************************************************************)
(* C4: with no reset and no failure a chain invokes exactly the handlers   *)
(* on the next-step path from its first step up to the first terminal      *)
(* step, in path order, invokes nothing for a terminal step, and is done   *)
(* as soon as the last handler on the path has returned.                   *)
(***************************************************************************)
C4_ChainPath ==
  (NoReset /\ NoFailure) =>
    /\ IsPrefix(chain.invoked, Path(chain.first))
    /\ \A k \in 1..Len(chain.invoked) : Lookup(chain.invoked[k]) = "handler"
    /\ chain.status = "done" => chain.invoked = Path(chain.first)
    /\ chain.status = "running" =>
         \E c \in inflight :
           /\ c.id = chain.id
           /\ c.step = chain.invoked[Len(chain.invoked)]
    /\ chain.status \in {"none", "running", "done"}

\* The chain of act('start') has run start and middle and is done.
C4_Witness ==
  /\ NoReset /\ NoFailure
  /\ chain.first = "start"
  /\ chain.invoked = <<"start", "middle">>
  /\ chain.status = "done"

(***************************************************************************)
(* C5: onChange is invoked exactly once for every committed result that    *)
(* carries a state update, directly after that commit, and for nothing     *)
(* else: not for a context-only or empty result, not for a failed or       *)
(* superseded invocation; onChange calls and committed state updates are   *)
(* equal in number.                                                        *)
(***************************************************************************)
C5_OnChangePerStateCommit ==
  /\ unnotified = 0
  /\ \A i \in EventsOf("change") :
       /\ i > 1
       /\ events[i - 1].ev = "commit"
       /\ events[i - 1].state # NoUpdate
       /\ events[i - 1].id = events[i].id
  /\ \A i \in EventsOf("commit") :
       /\ events[i].state # NoUpdate =>
            i < Len(events) /\ events[i + 1].ev = "change"
       /\ events[i].state = NoUpdate =>
            \A j \in EventsOf("change") : j < i
  /\ (\E i \in 1..Len(events) :
        \/ events[i].ev = "reject"
        \/ events[i].ev = "resolve" /\ events[i].src = "superseded")
       => EventsOf("change") = {}
  /\ Cardinality(EventsOf("change")) <= 1

\* A context-only commit that notified nobody.
C5_Witness ==
  /\ \E i \in EventsOf("commit") :
       events[i].state = NoUpdate /\ events[i].context # NoUpdate
  /\ EventsOf("change") = {}
  /\ state # InitialState

(***************************************************************************)
(* C6: every handler invocation receives the state and the context as the  *)
(* most recent commit left them (the initial values if there was none);    *)
(* act('start', 5) followed by middle's count + 1 leaves the count at 6.   *)
(***************************************************************************)
C6_LatestCommittedValues ==
  /\ \A i \in EventsOf("invoke") :
       /\ events[i].state = committed.state
       /\ events[i].context = committed.context
  /\ \A c \in inflight :
       c.state = committed.state /\ c.context = committed.context
  /\ state = committed.state /\ context = committed.context
  /\ (/\ chain.first = "start" /\ chain.payload = Increment
      /\ chain.status = "done" /\ chain.invoked = <<"start", "middle">>)
       => state = Increment + 1

\* middle is invoked with the count that start has just committed.
C6_Witness ==
  \E i, j \in 1..Len(events) :
    /\ i < j
    /\ events[i].ev = "commit" /\ events[i].state = Increment
    /\ events[j].ev = "invoke" /\ events[j].step = "middle"
    /\ events[j].state = Increment
    /\ context # InitialContext

(***************************************************************************)
(* C7: the payload of act reaches only the first handler invocation of the *)
(* chain its item starts; later invocations of the chain, and the first    *)
(* invocation of a chain started by a reset target, get the empty payload. *)
(***************************************************************************)
C7_PayloadFirstOnly ==
  /\ \A i \in EventsOf("invoke") :
       IF i > 1 /\ events[i - 1].ev = "start"
         THEN /\ events[i].payload = events[i - 1].payload
              /\ events[i].payload = chain.payload
              /\ events[i].id = events[i - 1].id
              /\ (i > 2 /\ events[i - 2].ev = "act"
                  /\ events[i - 2].id = events[i].id) =>
                   /\ events[i].payload = events[i - 2].payload
                   /\ events[i - 2].src = "engine" =>
                        events[i].payload = NoPayload
         ELSE events[i].payload = NoPayload
  /\ \A c \in inflight :
       c.payload # NoPayload =>
         c.payload = chain.payload /\ Len(chain.invoked) = 1
  /\ \A k \in 1..Len(items) : items[k].payload \in Payloads(items[k].step)

\* The second invocation of a chain whose item carried a payload.
C7_Witness ==
  /\ chain.payload = Increment
  /\ Len(chain.invoked) = 2
  /\ \E c \in inflight : c.id = chain.id /\ c.payload = NoPayload

(***************************************************************************)
(* C8: reset(X) called while no chain is in flight and the queue is empty  *)
(* starts a fresh chain at X, with state and context unchanged.            *)
(***************************************************************************)
C8_ResetWhileIdleStartsChain ==
  [][(/\ inflight = {} /\ current = NoItem /\ items = <<>>
      /\ resettingStep = NoStep
      /\ nResets' = nResets + 1
      /\ Len(events') >= 1 /\ events'[1].ev = "reset")
       => /\ \E i \in 1..Len(events') :
               events'[i].ev = "start" /\ events'[i].step = events'[1].step
          /\ state' = state /\ context' = context]_vars

(***************************************************************************)
(* C9: while a reset is pending a further reset call is a no-op: the       *)
(* pending target stays the one given by the first call.                   *)
(***************************************************************************)
C9_SecondResetIgnored ==
  [][(/\ resettingStep # NoStep
      /\ \A i \in 1..Len(events') : events'[i].ev # "start")
       => resettingStep' = resettingStep]_vars

(***************************************************************************)
(* C10: when a reset is requested while a handler invocation is in flight, *)
(* the result of that invocation is not committed: state and context are   *)
(* as they were before the invocation, onChange is not invoked, and the    *)
(* chain invokes no further handler.                                       *)
(***************************************************************************)
C10_SupersededNotCommitted ==
  \A i \in 1..Len(events) :
    (events[i].ev = "resolve" /\ events[i].src = "superseded") =>
      /\ state = events[i].state
      /\ context = events[i].context
      /\ EventsOf("commit") = {}
      /\ EventsOf("change") = {}
      /\ \A j \in EventsOf("invoke") : events[j].id # events[i].id
      /\ events[i].id \notin Open

\* start resolved with a state update after a reset was requested.
C10_Witness ==
  \E i \in 1..Len(events) :
    /\ events[i].ev = "resolve" /\ events[i].src = "superseded"
    /\ events[i].step = "start"
    /\ EventsOf("invoke") # {}

(***************************************************************************)
(* C11: when the handler of a step calls reset(R) during its invocation    *)
(* and returns a next step N, a fresh chain starts at R once the           *)
(* invocation has returned: the handler of R is the next handler invoked,  *)
(* and no handler of the returning chain (that of N) is invoked.           *)
(***************************************************************************)
C11_ResetFromHandlerStartsTarget ==
  [][\A c \in inflight, R \in Steps :
       (/\ c.targets = {R}
        /\ Len(events') >= 1
        /\ events'[1].ev = "resolve" /\ events'[1].id = c.id)
         => /\ \E i \in 1..Len(events') :
                 /\ events'[i].ev = "start"
                 /\ events'[i].step = R
                 /\ events'[i].id > c.id
            /\ \A j \in 1..Len(events') :
                 events'[j].ev = "invoke" =>
                   events'[j].step = R /\ events'[j].id > c.id
            /\ Lookup(R) = "handler" =>
                 \E j \in 1..Len(events') : events'[j].ev = "invoke"]_vars

\* A handler returned after a reset to a step with a handler, and the handler
\* of that step is in flight as the first one of the chain of the reset.
C11_Witness ==
  /\ Len(events) >= 1
  /\ events[1].ev = "resolve" /\ events[1].src = "superseded"
  /\ chain.reset /\ chain.id > events[1].id
  /\ \E c \in inflight :
       c.id = chain.id /\ c.step = chain.first /\ chain.invoked = <<c.step>>

(***************************************************************************)
(* C12: reset discards every work item queued before the reset call, the   *)
(* pending items and the continuation of the current item alike: after     *)
(* the call no such item is in the queue, and no chain is started and no   *)
(* handler is invoked for an item that arrived before the call.            *)
(***************************************************************************)
C12_ResetDiscardsQueued ==
  /\ \A i \in 1..Len(items) : items[i].id >= resetMark.id
  /\ current # NoItem => current.id >= resetMark.id
  /\ \A c \in inflight : c.id < resetMark.id => c.superseded
  /\ \A i \in EventsOf("start") \cup EventsOf("invoke") :
       (\A j \in EventsOf("reset") : j < i) => events[i].id >= resetMark.id

\* Two items had arrived when reset was called, the second was pending and
\* never started, and the handler of the reset target is in flight.
C12_Witness ==
  /\ resetMark.id >= 3
  /\ \A k \in 1..Len(chainLog) : chainLog[k][2] # 2
  /\ chain.reset /\ chain.id >= resetMark.id
  /\ \E c \in inflight : c.id = chain.id /\ ~c.superseded

(***************************************************************************)
(* C13: an act call made while a reset is pending is silently dropped: the *)
(* queue is not changed, no chain is started and no handler is invoked for *)
(* it (no item exists that could be run after the reset has resolved), and *)
(* neither onError nor onChange is invoked because of it. The same holds   *)
(* for an act call made by a callback: it is the last step of its task.    *)
(***************************************************************************)
C13_ActDroppedWhileResetPending ==
  [][/\ (/\ resettingStep # NoStep
          /\ nActs' = nActs + 1
          /\ Len(events') >= 1 /\ events'[1].ev = "act")
           => /\ events' = <<Ev("act", events'[1].src, 0, events'[1].step,
                                events'[1].payload, state, context)>>
              /\ items' = items /\ current' = current
              /\ nextId' = nextId
              /\ inflight' = inflight
              /\ chainLog' = chainLog
              /\ resettingStep' = resettingStep
              /\ processingStep' = processingStep
              /\ state' = state /\ context' = context
     /\ \A i \in 1..Len(events') :
          (events'[i].ev = "act" /\ events'[i].id = 0)
            => i = Len(events') /\ resettingStep' # NoStep
     /\ \A i \in 1..Len(items') : items'[i].id >= 1]_vars

\* act was called while a reset was pending, after an accepted act.
C13_Witness ==
  /\ resettingStep # NoStep
  /\ nextId >= 2
  /\ events = <<Ev("act", "caller", 0, events[1].step, events[1].payload,
                   state, context)>>

(***************************************************************************)
(* C14: once the chain of the reset target has started the reset is no     *)
(* longer pending and act is accepted again: an act issued while the       *)
(* handler of the reset target is in flight is enqueued behind the current *)
(* item and starts nothing; no item starts a chain twice, a chain starts   *)
(* only when the chain before it has ended, and when a chain completes     *)
(* with items pending the first of them starts next.                       *)
(***************************************************************************)
C14_ActAcceptedAfterResetStarted ==
  [][/\ \A i \in 2..Len(events') :
          (/\ events'[i].ev = "start"
           /\ events'[i - 1].ev = "act" /\ events'[i - 1].src = "engine"
           /\ \A j \in (i + 1)..Len(events') : events'[j].ev # "reset")
            => resettingStep' = NoStep
     /\ (/\ chain.reset /\ chain.status = "running"
         /\ \E c \in inflight : c.id = chain.id /\ c.step = chain.first
         /\ resettingStep = NoStep
         /\ nActs' = nActs + 1
         /\ Len(events') >= 1 /\ events'[1].ev = "act")
          => /\ events'[1].id = nextId
             /\ items' = Append(items, [id |-> nextId,
                                        step |-> events'[1].step,
                                        payload |-> events'[1].payload,
                                        reset |-> FALSE])
             /\ current' = current
             /\ Len(events') = 1
             /\ inflight' = inflight /\ chainLog' = chainLog
     /\ \A k \in 1..Len(chainLog'), l \in 1..Len(chainLog') :
          (k < l /\ chainLog'[k][1] = "start" /\ chainLog'[l][1] = "start")
            => /\ chainLog'[k][2] # chainLog'[l][2]
               /\ chainLog'[l - 1][1] # "start"
     /\ \A i \in 1..Len(events') :
          (/\ events'[i].ev = "done"
           /\ \A j \in 1..(i - 1) : events'[j].ev # "done"
           /\ items # <<>>)
            => /\ i < Len(events')
               /\ events'[i + 1].ev = "start"
               /\ events'[i + 1].id = Head(items).id]_vars

\* An act made while the handler of the reset target was in flight has
\* started its chain, right after the chain of the reset target completed.
C14_Witness ==
  /\ Len(chainLog) >= 3
  /\ chainLog[Len(chainLog)][1] = "start"
  /\ chainLog[Len(chainLog) - 1][1] = "done"
  /\ chainLog[Len(chainLog) - 1][2] = resetMark.id
  /\ chainLog[Len(chainLog)][2] > resetMark.id
  /\ nResets >= 1
  /\ ~chain.reset /\ chain.status = "running"
  /\ resettingStep = NoStep

(***************************************************************************)
(* C15: when a handler invocation raises or rejects, onError is invoked    *)
(* exactly once for that failure, no further handler of that chain is      *)
(* invoked, the failing invocation is not retried, and the processing      *)
(* marker is cleared.                                                      *)
(***************************************************************************)
C15_FailureHaltsChain ==
  /\ \A i \in EventsOf("reject") :
       /\ i < Len(events)
       /\ events[i + 1].ev = "error"
       /\ events[i + 1].id = events[i].id
       /\ events[i + 1].step = events[i].step
  /\ Cardinality(EventsOf("error")) <= 1
  /\ \A i \in EventsOf("error") :
       /\ \A j \in EventsOf("invoke") : j < i
       /\ \A j \in EventsOf("start") : j < i
       /\ events[i].id \notin Open
       /\ \A c \in inflight : c.id # events[i].id
       /\ processingStep = NoStep
  /\ \A k \in 1..Len(chainLog) :
       chainLog[k][1] = "error" =>
         /\ \A l \in (k + 1)..Len(chainLog) : chainLog[l][2] # chainLog[k][2]
         /\ \A c \in inflight : c.id # chainLog[k][2]

\* The handler of the second step of a chain rejected.
C15_Witness ==
  /\ Len(events) >= 2
  /\ events[1].ev = "reject" /\ events[1].src = "live"
  /\ events[1].step = "middle"
  /\ events[2].ev = "error"
  /\ chain.status = "error" /\ chain.invoked = <<"start", "middle">>

(***************************************************************************)
(* C16: after a handler failure the current item of the queue is not       *)
(* released: as long as reset has not been called since the failed item    *)
(* arrived, the failed item stays current, every act made afterwards, the  *)
(* ones of the onError callback included, is queued behind it, and no      *)
(* chain is started and no handler is invoked for them.                    *)
(***************************************************************************)
C16_FailedItemStaysCurrent ==
  \A k \in 1..Len(chainLog) :
    (chainLog[k][1] = "error" /\ resetMark.id <= chainLog[k][2]) =>
      /\ k = Len(chainLog)
      /\ current # NoItem /\ current.id = chainLog[k][2]
      /\ inflight = {}
      /\ processingStep = NoStep
      /\ \A i \in 1..Len(items) : items[i].id > current.id
      /\ \A i \in EventsOf("act") :
           events[i].id > current.id =>
             \E j \in 1..Len(items) :
               items[j].id = events[i].id /\ items[j].step = events[i].step
      /\ \A i \in EventsOf("start") \cup EventsOf("invoke") :
           events[i].id <= current.id

\* After a failure the onError callback called act, and a second act was
\* queued before it: both wait behind the failed item.
C16_Witness ==
  /\ Len(chainLog) >= 1 /\ chainLog[Len(chainLog)][1] = "error"
  /\ nResets = 0
  /\ current.id = chainLog[Len(chainLog)][2]
  /\ Len(items) >= 2
  /\ \E i \in EventsOf("act") :
       events[i].src = "callback" /\ events[i].id = items[Len(items)].id

(***************************************************************************)
(* C17: reset is a recovery path after a handler failure: when a failure   *)
(* has left the current item of the queue unresolved, a call of reset(X)   *)
(* starts a fresh chain at X.                                              *)
(***************************************************************************)
C17_ResetRecoversAfterFailure ==
  [][(/\ Len(chainLog) >= 1
      /\ chainLog[Len(chainLog)][1] = "error"
      /\ current # NoItem /\ current.id = chainLog[Len(chainLog)][2]
      /\ inflight = {}
      /\ nResets' = nResets + 1
      /\ Len(events') >= 1 /\ events'[1].ev = "reset")
       => \E i \in 1..Len(events') :
            events'[i].ev = "start" /\ events'[i].step = events'[1].step]_vars

(***************************************************************************)
(* C18: acts made while a handler is in flight are appended to the queue   *)
(* in call order and start nothing; their chains start only after the      *)
(* chain of the calling handler has ended, and all items, whoever issued   *)
(* them, start strictly in arrival order.                                  *)
(***************************************************************************)
C18_ArrivalOrder ==
  [][/\ (/\ inflight # {}
         /\ resettingStep = NoStep
         /\ nActs' = nActs + 1
         /\ Len(events') >= 1 /\ events'[1].ev = "act")
          => /\ Len(items') = Len(items) + 1
             /\ SubSeq(items', 1, Len(items)) = items
             /\ items'[Len(items')].id = nextId
             /\ items'[Len(items')].step = events'[1].step
             /\ \A c \in inflight : c.id = current.id
             /\ current' = current
             /\ inflight' = inflight
             /\ chainLog' = chainLog
     /\ \A i \in 1..Len(items'), j \in 1..Len(items') :
          i < j => items'[i].id < items'[j].id
     /\ \A i \in 1..Len(items') :
          current' # NoItem => current'.id < items'[i].id
     /\ \A k \in 1..Len(chainLog'), l \in 1..Len(chainLog') :
          (k < l /\ chainLog'[k][1] = "start" /\ chainLog'[l][1] = "start")
            => /\ chainLog'[k][2] < chainLog'[l][2]
               /\ \E n \in (k + 1)..(l - 1) :
                    chainLog'[n][2] = chainLog'[k][2]]_vars

\* Two acts were made while the handler of the first item is in flight: both
\* wait in call order behind the current item.
C18_Witness ==
  /\ nResets = 0
  /\ \E c \in inflight : c.id = current.id /\ c.id = 1
  /\ Len(items) = 2
  /\ items[1].id = 2 /\ items[2].id = 3
  /\ Len(events) = 1 /\ events[1].ev = "act" /\ events[1].id = 3

(***************************************************************************)
(* C19: act returns without waiting for any handler: in every engine state *)
(* the state and the context read right after the call are the ones from   *)
(* before it, and neither a commit nor an onChange call happens inside the *)
(* call.                                                                   *)
(***************************************************************************)
C19_ActDoesNotWait ==
  [][(/\ nActs' = nActs + 1
      /\ Len(events') >= 1 /\ events'[1].ev = "act")
       => /\ state' = state /\ context' = context
          /\ committed' = committed
          /\ unnotified' = unnotified
          /\ \A i \in 1..Len(events') :
               /\ events'[i].ev \notin {"commit", "change", "resolve", "reject"}
               /\ events'[i].state = state
               /\ events'[i].context = context]_vars

\* act called on a machine whose state has been updated started a chain and
\* returned with the handler in flight.
C19_Witness ==
  /\ Len(events) = 3
  /\ events[1].ev = "act" /\ events[1].src = "caller"
  /\ events[3].ev = "invoke"
  /\ state # InitialState
  /\ \E c \in inflight : c.id = events[1].id /\ c.state = state

(***************************************************************************)
(* C20: reset does not change the state or the context: right after a      *)
(* reset call both are what they were before it, and the first handler of  *)
(* the chain of the reset target receives the values committed before the  *)
(* reset, not the initial ones.                                            *)
(***************************************************************************)
C20_ResetKeepsValues ==
  /\ \A i \in EventsOf("reset") :
       /\ state = events[i].state
       /\ context = events[i].context
  /\ \A c \in inflight :
       (chain.reset /\ c.id = chain.id /\ chain.invoked = <<c.step>>) =>
         /\ c.state = resetMark.state /\ c.context = resetMark.context
         /\ c.state = committed.state /\ c.context = committed.context

\* The first handler of the chain of a reset target is in flight with a
\* state and a context that differ from the initial ones.
C20_Witness ==
  /\ chain.reset /\ chain.status = "running"
  /\ \E c \in inflight :
       /\ c.id = chain.id /\ chain.invoked = <<c.step>>
       /\ c.state # InitialState /\ c.context # InitialContext
       /\ c.state = resetMark.state

(***************************************************************************)
(* C21: a chain abandoned because a reset was requested while its handler, *)
(* which returns normally, was in flight is not reported as a failure:     *)
(* onError is not invoked for the abandoned chain.                         *)
(***************************************************************************)
C21_AbandonIsNoFailure ==
  /\ \A i \in EventsOf("resolve") :
       events[i].src = "superseded" =>
         /\ \A j \in EventsOf("error") : events[j].id # events[i].id
         /\ \E k \in 1..Len(chainLog) :
              chainLog[k] = <<"abandon", events[i].id>>
  /\ \A k \in 1..Len(chainLog), l \in 1..Len(chainLog) :
       (chainLog[k][1] = "abandon" /\ chainLog[l][2] = chainLog[k][2])
         => chainLog[l][1] # "error"

\* A handler returned after a reset was requested: its chain was abandoned
\* and the task called onError for nothing.
C21_Witness ==
  /\ Len(events) >= 2
  /\ events[1].ev = "resolve" /\ events[1].src = "superseded"
  /\ events[2].ev = "abandon"
  /\ EventsOf("error") = {}
  /\ chainLog[Len(chainLog) - 1] = <<"abandon", events[1].id>>

(***************************************************************************)
(* The queue on its own, as the tests of Queue.ts drive it: enqueue, done  *)
(* and clear are called in any order, and the update notification records *)
(* the current item. The notification either returns or, as the one of the *)
(* engine does for a terminal step, calls done. nActs counts the enqueue   *)
(* calls and nResets the clear calls; chainLog lists the notifications     *)
(* and resetMark.id is the arrival number at the last clear.               *)
(***************************************************************************)

\* What the update notification does: it returns, it calls done, or it
\* enqueues one more item.
Updates == {"none", "done", "enqueue"}

\* The steps of the items handed to the queue on its own.
QueueSteps == {"start", "end"}

RECURSIVE Queue_next(_, _), Queue_done(_, _), Queue_enqueue(_, _, _),
          onUpdate(_, _)

\* The onUpdate callback handed to the constructor of the queue.
onUpdate(m, cb) ==
  LET m1 == [Log(m, Ev("update", cb, m.current.id, m.current.step,
                       NoPayload, m.state, m.context))
               EXCEPT !.chainLog = Append(@, <<"update", m.current.id>>)]
  IN CASE cb = "done" -> Queue_done(m1, cb)
       [] cb = "enqueue" /\ m1.nActs < MaxActs ->
            Queue_enqueue([m1 EXCEPT !.nActs = @ + 1, !.nextId = @ + 1],
                          [id |-> m1.nextId, step |-> "end",
                           payload |-> NoPayload, reset |-> FALSE], cb)
       [] OTHER -> m1

\* Queue.next, with the notification of the queue on its own.
Queue_next(m, cb) ==
  IF m.current # NoItem \/ Len(m.items) = 0
    THEN m
    ELSE onUpdate([m EXCEPT !.current = Shift(m.items).item,
                            !.items = Shift(m.items).rest], cb)

\* Queue.enqueue promoting the oldest pending item although one is current.
Queue_enqueueEager(m, item, cb) ==
  LET m1 == [m EXCEPT !.items = Append(@, item)]
  IN onUpdate([m1 EXCEPT !.current = Shift(m1.items).item,
                         !.items = Shift(m1.items).rest], cb)

\* Queue.enqueue putting the item in front of the pending ones.
Queue_enqueueFront(m, item, cb) ==
  LET m1 == [m EXCEPT !.items = <<item>> \o @]
  IN IF m1.current = NoItem THEN Queue_next(m1, cb) ELSE m1

\* Queue.enqueue, with the notification of the queue on its own.
Queue_enqueue(m, item, cb) ==
  LET m1 == [m EXCEPT !.items = Append(@, item)]
  IN IF m1.current = NoItem THEN Queue_next(m1, cb) ELSE m1

\* Queue.done leaving the current item in place.
Queue_doneKeeps(m, cb) == Queue_next(m, cb)

\* Queue.done, with the notification of the queue on its own.
Queue_done(m, cb) == Queue_next([m EXCEPT !.current = NoItem], cb)

\* A call of the queue: the events of the task start with it.
Call(m, op, cb, step) ==
  [m EXCEPT !.events = <<Ev(op, cb, m.nextId, step, NoPayload,
                            m.state, m.context)>>]

\* queue.enqueue(item)
EnqueueCall ==
  \E step \in QueueSteps, cb \in Updates :
    /\ nActs + (IF cb = "enqueue" THEN 1 ELSE 0) < MaxActs
    /\ Set(Queue_enqueue([Call(M, "enqueue", cb, step)
                            EXCEPT !.nActs = @ + 1, !.nextId = @ + 1],
                         [id |-> nextId, step |-> step,
                          payload |-> NoPayload, reset |-> FALSE], cb))

\* queue.done()
DoneCall ==
  \E cb \in Updates :
    /\ cb = "enqueue" => nActs < MaxActs
    /\ Set(Queue_done(Call(M, "done", cb, NoStep), cb))

\* queue.clear()
ClearCall ==
  /\ nResets < MaxResets
  /\ Set(clear([Call(M, "clear", "none", NoStep)
                  EXCEPT !.nResets = @ + 1, !.resetMark.id = nextId]))

QueueNext == EnqueueCall \/ DoneCall \/ ClearCall

QueueSpec == Init /\ [][QueueNext]_vars

\* The notifications of the last call of the queue.
UpdatesOf(evs) == {i \in 1..Len(evs) : evs[i].ev = "update"}

(***************************************************************************)
(* C22: Queue.enqueue on an idle queue makes the enqueued item current and *)
(* invokes the update notification once, inside the call; Queue.enqueue    *)
(* while an item is current appends the item to the pending ones, leaves   *)
(* the current item as it is and invokes no notification.                  *)
(***************************************************************************)
C22_EnqueuePromotesWhenIdle ==
  [][(/\ nActs' = nActs + 1
      /\ Len(events') >= 1 /\ events'[1].ev = "enqueue")
       => LET item == [id |-> nextId, step |-> events'[1].step,
                       payload |-> NoPayload, reset |-> FALSE]
          IN IF current = NoItem
               THEN /\ UpdatesOf(events') = {2}
                    /\ events'[2].id = item.id
                    /\ events'[2].step = item.step
                    /\ items' = items
                    /\ current' = IF events'[1].src = "none"
                                    THEN item ELSE NoItem
               ELSE /\ UpdatesOf(events') = {}
                    /\ items' = Append(items, item)
                    /\ current' = current]_vars

\* enqueue was called while an item was current: the item waits.
C22_Witness ==
  /\ Len(events) = 1 /\ events[1].ev = "enqueue"
  /\ current # NoItem /\ current.id < events[1].id
  /\ Len(items) >= 1 /\ items[Len(items)].id = events[1].id
  /\ inflight = {}

(***************************************************************************)
(* C23: Queue.done clears the current item; if pending items remain it     *)
(* promotes the oldest of them to current and invokes the update           *)
(* notification once; if none remain, also when the queue was idle         *)
(* already, the queue stays idle and no notification is invoked.           *)
(***************************************************************************)
C23_DonePromotesOldest ==
  [][(/\ Len(events') >= 1 /\ events'[1].ev = "done"
      /\ nActs' = nActs /\ nResets' = nResets)
       => IF items # <<>>
            THEN /\ 2 \in UpdatesOf(events')
                 /\ events'[2].id = Head(items).id
                 /\ events'[1].src = "none" =>
                      /\ UpdatesOf(events') = {2}
                      /\ current' = Head(items)
                      /\ items' = Tail(items)
                 /\ events'[1].src = "done" =>
                      /\ Len(events') = 1 + Len(items)
                      /\ \A i \in 1..Len(items) :
                           /\ events'[i + 1].ev = "update"
                           /\ events'[i + 1].id = items[i].id
                      /\ current' = NoItem /\ items' = <<>>
            ELSE /\ UpdatesOf(events') = {}
                 /\ current' = NoItem
                 /\ items' = <<>>]_vars

\* done released the current item and promoted the older of two pending ones.
C23_Witness ==
  /\ Len(events) = 2
  /\ events[1].ev = "done" /\ events[2].ev = "update"
  /\ current.id = events[2].id
  /\ Len(items) = 1 /\ items[1].id = current.id + 1

(***************************************************************************)
(* C24: Queue.clear discards the current item and all pending items and    *)
(* invokes no notification; afterwards the queue is as a new one: no item  *)
(* is current, a discarded item never becomes current, and the next        *)
(* enqueue promotes its item at once with one notification.                *)
(***************************************************************************)
C24_ClearLeavesNewQueue ==
  [][/\ (/\ nResets' = nResets + 1
         /\ Len(events') >= 1 /\ events'[1].ev = "clear")
          => /\ items' = <<>>
             /\ current' = NoItem
             /\ Len(events') = 1
             /\ chainLog' = chainLog
     /\ \A i \in UpdatesOf(events') : events'[i].id >= resetMark'.id
     /\ current' # NoItem => current'.id >= resetMark'.id
     /\ \A i \in 1..Len(items') : items'[i].id >= resetMark'.id
     /\ (/\ nResets >= 1 /\ nextId = resetMark.id
         /\ nActs' = nActs + 1
         /\ Len(events') >= 1 /\ events'[1].ev = "enqueue")
          => /\ UpdatesOf(events') = {2}
             /\ events'[2].id = nextId]_vars

\* Two items were enqueued, clear discarded both, the second without its ever
\* being current, and the item enqueued next is current.
C24_Witness ==
  /\ nResets >= 1 /\ resetMark.id = 3
  /\ chainLog = <<<<"update", 1>>, <<"update", 3>>>>
  /\ current.id = 3 /\ items = <<>>
  /\ Len(events) = 2 /\ events[1].ev = "enqueue"

(***************************************************************************)
(* C25: for any sequence of Queue.enqueue and Queue.done calls without     *)
(* clear, the items become current in the order they were enqueued, each   *)
(* at most once and none skipped, and the update notification fires once   *)
(* for each item that becomes current.                                     *)
(***************************************************************************)
C25_QueueFifo ==
  nResets = 0 =>
    /\ \A k \in 1..Len(chainLog) : chainLog[k] = <<"update", k>>
    /\ current # NoItem => current.id = Len(chainLog)
    /\ \A i \in 1..Len(items) : items[i].id = Len(chainLog) + i
    /\ Len(chainLog) + Len(items) = nextId - 1
    /\ nextId = nActs + 1
    /\ current = NoItem => items = <<>>

\* Three items were enqueued and each of them has become current, the last
\* one by a done call.
C25_Witness ==
  /\ nResets = 0
  /\ chainLog = <<<<"update", 1>>, <<"update", 2>>, <<"update", 3>>>>
  /\ current.id = 3
  /\ Len(events) = 2 /\ events[1].ev = "done" /\ events[2].id = 3

(***************************************************************************)
(* C26: a pending reset is consumed when the handler invocation in flight  *)
(* finishes, whether it returns or fails: the engine enqueues the target,  *)
(* a chain starts there, and the reset recorded at the call is no longer   *)
(* pending unless a callback of that task called reset anew.               *)
(***************************************************************************)
C26_PendingResetConsumed ==
  [][\A c \in inflight :
       (/\ resettingStep # NoStep
        /\ Len(events') >= 1
        /\ events'[1].ev \in {"resolve", "reject"}
        /\ events'[1].id = c.id)
         => /\ \E i \in 1..Len(events') :
                 /\ events'[i].ev = "start"
                 /\ events'[i].step = resettingStep
                 /\ events'[i].id > c.id
            /\ (\A i \in 1..Len(events') : events'[i].ev # "reset")
                 => resettingStep' = NoStep]_vars

(***************************************************************************)
(* C27: if a reset target became pending at any point during a chain, also *)
(* between two invocations (reset called from onChange after a commit),    *)
(* then when the chain stops the processing marker is clear, the pending   *)
(* reset is consumed and the reset target is enqueued as a fresh item,     *)
(* whose chain starts; otherwise the chain stops by calling done.          *)
(***************************************************************************)
C27_ChainStopConsumesReset ==
  [][\A k \in (Len(chainLog) + 1)..Len(chainLog') :
       /\ chainLog'[k][1] = "abandon" =>
            /\ k < Len(chainLog')
            /\ chainLog'[k + 1][1] = "start"
            /\ \E i \in 1..Len(events') :
                 events'[i].ev = "act" /\ events'[i].src = "engine"
       /\ chainLog'[k][1] = "done" =>
            \E i \in 1..Len(events') :
              events'[i].ev = "done" /\ events'[i].id = chainLog'[k][2]]_vars

\* The steps whose table entry is the terminal marker.
Terminal(step) == step \in DOMAIN steps /\ steps[step] = "null"

\* The engine at rest: every item that arrived has completed its chain, and
\* nothing is current, pending, marked or in flight.
Idle ==
  /\ current = NoItem /\ items = <<>>
  /\ processingStep = NoStep
  /\ inflight = {}
  /\ \A id \in 1..(nextId - 1) :
       \E k \in 1..Len(chainLog) : chainLog[k] = <<"done", id>>

(***************************************************************************)
(* C28: if all handlers return normally (the handler table is acyclic) and *)
(* no reset is issued, then after finitely many act calls the engine       *)
(* eventually becomes idle and stays so: the chain of every enqueued item  *)
(* has completed, the queue has no current and no pending item, and the    *)
(* processing marker is clear.                                             *)
(***************************************************************************)
C28_EventuallyIdle == [](NoReset /\ NoFailure) => <>[]Idle

\* Three items were enqueued, the third while the second was running, and the
\* engine is at rest after the task that completed the last two chains.
C28_Witness ==
  /\ Idle /\ NoReset /\ NoFailure
  /\ nextId = 4
  /\ \E i \in EventsOf("done"), j \in EventsOf("done") :
       i < j /\ events[i].id = 2 /\ events[j].id = 3

(***************************************************************************)
(* C29: act(T) for a step T whose table entry is the terminal marker       *)
(* invokes no handler, no onChange and no onError, leaves state and        *)
(* context unchanged, and releases the queue item at once, so that an item *)
(* queued behind it starts next.                                           *)
(***************************************************************************)
C29_TerminalStepReleasesAtOnce ==
  \A i \in EventsOf("start") :
    Terminal(events[i].step) =>
      /\ i < Len(events)
      /\ events[i + 1].ev = "done"
      /\ events[i + 1].id = events[i].id
      /\ events[i + 1].state = events[i].state
      /\ events[i + 1].context = events[i].context
      /\ \A j \in 1..Len(events) :
           events[j].id = events[i].id =>
             events[j].ev \in {"act", "start", "done"}
      /\ \A c \in inflight : c.id # events[i].id
      /\ IF i + 1 < Len(events)
           THEN /\ events[i + 2].ev = "start"
                /\ events[i + 2].id > events[i].id
           ELSE /\ current = NoItem /\ items = <<>>
                /\ state = events[i].state /\ context = events[i].context

\* An item for a terminal step that waited behind a running chain was
\* started and released in one task, and the item behind it started next.
C29_Witness ==
  \E i \in EventsOf("start") :
    /\ Terminal(events[i].step)
    /\ i > 1 /\ events[i - 1].ev = "done"
    /\ i + 2 <= Len(events)
    /\ events[i + 2].ev = "start"
    /\ state # InitialState

(***************************************************************************)
(* C30: the engine calls done on the queue once for each item whose chain  *)
(* reaches a terminal step with no reset pending, and never for a chain    *)
(* that failed or was abandoned by a reset; whenever done is called, the   *)
(* current item of the queue is the item that started the finishing chain. *)
(***************************************************************************)
C30_DoneOncePerCompletedChain ==
  /\ \A i \in EventsOf("done") :
       /\ events[i].payload = events[i].id
       /\ \A j \in EventsOf("done") : events[j].id = events[i].id => j = i
       /\ \A j \in EventsOf("error") \cup EventsOf("abandon") :
            events[j].id # events[i].id
       /\ \E k \in 1..Len(chainLog) : chainLog[k] = <<"done", events[i].id>>
  /\ \A i \in EventsOf("commit") \cup EventsOf("start") :
       (/\ Terminal(events[i].step)
        /\ \A j \in EventsOf("reset") : j < i)
         => \E j \in EventsOf("done") : j > i /\ events[j].id = events[i].id
  /\ \A k \in 1..Len(chainLog), l \in 1..Len(chainLog) :
       (/\ chainLog[k][1] = "done" /\ chainLog[l][2] = chainLog[k][2]
        /\ l # k)
         => chainLog[l][1] = "start" /\ l < k

\* After a chain was abandoned by a reset, the chain of the reset target ran
\* to its terminal step and released its own item.
C30_Witness ==
  /\ \E k \in 1..Len(chainLog) : chainLog[k][1] = "abandon"
  /\ chainLog[Len(chainLog)][1] = "done"
  /\ \E i \in EventsOf("done") :
       /\ events[i].id = chainLog[Len(chainLog)][2]
       /\ events[i].payload = events[i].id
       /\ i > 1 /\ events[i - 1].ev = "commit"
  /\ current = NoItem

(***************************************************************************)
(* C31: steps are not deduplicated: when act(S) is called twice, the       *)
(* second time while the first chain is running or after it, two chains    *)
(* starting at S run one after the other; the guard of processStep that    *)
(* compares the processing marker with the step of the current item never  *)
(* makes a promoted item be skipped: every current item has started its    *)
(* chain.                                                                  *)
(***************************************************************************)
C31_NoDeduplication ==
  /\ \A i \in EventsOf("skip") : events[i].src # "guard"
  /\ current # NoItem =>
       \E k \in 1..Len(chainLog) : chainLog[k] = <<"start", current.id>>
  /\ \A i \in EventsOf("done") :
       (i < Len(events) /\ events[i + 1].ev = "start") =>
         /\ events[i + 1].id > events[i].id
         /\ chain.id >= events[i + 1].id

\* A chain that started at a step completed, and the chain of the next item,
\* for the same step, started in the same task.
C31_Witness ==
  \E i \in EventsOf("done") :
    /\ i + 2 <= Len(events)
    /\ events[i + 1].ev = "start"
    /\ events[i + 1].step = events[i].step
    /\ events[i + 1].step = "start"
    /\ events[i + 2].ev = "invoke"
    /\ events[i + 2].id = events[i].id + 1

(***************************************************************************)
(* C32: a handler failure rolls nothing back and commits nothing: the      *)
(* state and context updates committed by earlier invocations of the chain *)
(* stay in place, and the failing invocation changes neither state nor     *)
(* context and triggers no onChange.                                       *)
(***************************************************************************)
C32_FailureCommitsNothing ==
  /\ \A i \in EventsOf("error") :
       /\ state = events[i].state /\ context = events[i].context
       /\ state = committed.state /\ context = committed.context
       /\ \A j \in EventsOf("commit") \cup EventsOf("change") : j < i
  /\ \A i \in EventsOf("reject") :
       /\ EventsOf("commit") = {} /\ EventsOf("change") = {}
       /\ events[i].src = "live" =>
            state = events[i].state /\ context = events[i].context

\* The second handler of a chain failed: the state committed by the first
\* one is in place.
C32_Witness ==
  /\ Len(events) >= 2
  /\ events[1].ev = "reject" /\ events[1].step = "middle"
  /\ events[1].src = "live"
  /\ state # InitialState /\ state = committed.state
  /\ chain.status = "error"

(***************************************************************************)
(* C33: the state and the context change only at the commit of a handler   *)
(* result that carries the corresponding update: a task that changes one   *)
(* of them holds a commit of the new value, and act, reset, a handler      *)
(* failure, a superseded invocation and the queue operations they run      *)
(* leave both unchanged.                                                   *)
(***************************************************************************)
C33_OnlyCommitChangesValues ==
  [][/\ state' # state =>
          /\ state' # NoUpdate
          /\ \E i \in 1..Len(events') :
               events'[i].ev = "commit" /\ events'[i].state = state'
     /\ context' # context =>
          /\ context' # NoUpdate
          /\ \E i \in 1..Len(events') :
               events'[i].ev = "commit" /\ events'[i].context = context'
     /\ (/\ Len(events') >= 1
         /\ \/ events'[1].ev \in {"act", "reset", "reject"}
            \/ events'[1].ev = "resolve" /\ events'[1].src = "superseded")
          => state' = state /\ context' = context]_vars

\* A handler that returned a context update and no state update was
\* committed: the context changed and the state did not.
C33_Witness ==
  /\ \E i \in EventsOf("commit") :
       /\ events[i].state = NoUpdate
       /\ events[i].context # NoUpdate
       /\ context = events[i].context
  /\ context # InitialContext
  /\ state # InitialState

(***************************************************************************)
(* C34: reaching a step that has no entry in the handler table is not      *)
(* treated as terminal: the chain halts on the failure path, onError is    *)
(* invoked once, and the current item of the queue is left unresolved.     *)
(***************************************************************************)
C34_MissingEntryFails ==
  \A i \in EventsOf("start") :
    events[i].step \notin DOMAIN steps =>
      /\ i < Len(events)
      /\ events[i + 1].ev = "error"
      /\ events[i + 1].id = events[i].id
      /\ events[i + 1].step = events[i].step
      /\ \A j \in EventsOf("error") : j = i + 1
      /\ \A j \in EventsOf("done") \cup EventsOf("invoke") :
           events[j].id # events[i].id
      /\ \E k \in 1..Len(chainLog) : chainLog[k] = <<"error", events[i].id>>
      /\ processingStep = NoStep
      /\ (\A j \in EventsOf("reset") : j < i) =>
           current # NoItem /\ current.id = events[i].id

\* act was called for a step without a table entry: onError was called and
\* the item is still the current one.
C34_Witness ==
  /\ Len(events) = 3
  /\ events[1].ev = "act" /\ events[1].step = "ghost"
  /\ events[2].ev = "start" /\ events[3].ev = "error"
  /\ current.step = "ghost"
  /\ chain.status = "error" /\ chain.invoked = <<>>

(***************************************************************************)
(* The catch block of processStep as a conversion of the value thrown to   *)
(* the value handed to onError. A value is a record of its kind, its       *)
(* identity (ref) and its text: the message of an error, and for any other *)
(* value what String(e) yields. events lists, for each failure caught, the *)
(* value thrown and the value onError received.                            *)
(***************************************************************************)

\* The failures caught in a run of the conversion.
MaxThrows == 3

\* The kinds of values for which e instanceof Error holds.
ErrorKinds == {"Error", "TypeError"}

\* The values a handler may throw or reject with.
ThrownValues ==
  {[kind |-> "Error", ref |-> 1, text |-> "boom"],
   [kind |-> "TypeError", ref |-> 2, text |-> "handler is not a function"],
   [kind |-> "string", ref |-> 3, text |-> "boom"],
   [kind |-> "number", ref |-> 4, text |-> "42"],
   [kind |-> "undefined", ref |-> 5, text |-> "undefined"],
   [kind |-> "object", ref |-> 6, text |-> "[object Object]"]}

\* The identity of an object created by the catch block.
NewRef == 0

\* String(e)
String(v) == v.text

\* The conversion handing every value on as it is.
NormalizeForward(v) == v

\* e instanceof Error ? e : new Error(`Unexpected error: ${String(e)}`)
Normalize(v) ==
  IF v.kind \in ErrorKinds
    THEN v
    ELSE [kind |-> "Error", ref |-> NewRef,
          text |-> "Unexpected error: " \o String(v)]

\* A handler fails with a value, and the catch block hands it to onError.
Throw ==
  \E v \in ThrownValues :
    /\ Len(events) < MaxThrows
    /\ events' = Append(events, [thrown |-> v, received |-> Normalize(v)])
    /\ UNCHANGED <<items, current, processingStep, resettingStep, state,
                   context, inflight, nextId, nActs, nResets, chainLog,
                   chain, committed, unnotified, resetMark>>

ErrorSpec == Init /\ [][Throw]_vars

(***************************************************************************)
(* C35: onError always receives a value of the single error kind: a thrown *)
(* or rejected value that is an error already is handed on unchanged, and  *)
(* any other value is wrapped into a new error before it is handed on.     *)
(***************************************************************************)
C35_OnErrorReceivesError ==
  \A i \in 1..Len(events) :
    LET v == events[i].thrown
        w == events[i].received
    IN /\ w.kind \in ErrorKinds
       /\ v.kind \in ErrorKinds => w = v
       /\ v.kind \notin ErrorKinds =>
            /\ w.kind = "Error"
            /\ w.ref # v.ref
            /\ w.text = "Unexpected error: " \o v.text

\* onError has received an error as it was thrown and a wrapped string.
C35_Witness ==
  /\ Len(events) >= 2
  /\ events[1].thrown.kind = "TypeError" /\ events[1].received.ref = 2
  /\ events[2].thrown.kind = "string"
  /\ events[2].received.text = "Unexpected error: boom"

(***************************************************************************)
(* C36: whenever a reset is pending the queue is empty, with no current    *)
(* and no pending item, so the update notification does not fire while a   *)
(* reset is pending, and the branch of processStep that ignores a          *)
(* notification whose step differs from the reset target is never taken.   *)
(***************************************************************************)
C36_QueueEmptyWhileResetPending ==
  /\ resettingStep # NoStep => current = NoItem /\ items = <<>>
  /\ \A i \in EventsOf("skip") : events[i].src # "gate"
  /\ \A i \in EventsOf("start") :
       \A j \in EventsOf("reset") :
         j < i => \E k \in (j + 1)..(i - 1) :
                    events[k].ev = "act" /\ events[k].src = "engine"

\* A reset is pending while a handler is in flight, and it discarded a
\* pending item.
C36_Witness ==
  /\ resettingStep # NoStep
  /\ current = NoItem /\ items = <<>>
  /\ inflight # {}
  /\ resetMark.id >= 3
  /\ \A k \in 1..Len(chainLog) : chainLog[k][2] # 2

(***************************************************************************)
(* C37: whenever the processing marker is set, the queue has a current     *)
(* item and the marker is the step of that item, whichever step of the     *)
(* chain is running; the update notification is never delivered while the  *)
(* marker is set, so that every item promoted to current starts a chain:   *)
(* the last chain started is the chain of the current item.                *)
(***************************************************************************)
C37_MarkerIsCurrentStep ==
  /\ processingStep # NoStep =>
       /\ current # NoItem
       /\ processingStep = current.step
       /\ chain.id = current.id /\ chain.first = processingStep
       /\ chain.status = "running"
  /\ ~ \E i \in 1..Len(events) :
         /\ events[i].ev = "skip" /\ events[i].src = "guard"
         /\ events[i].step # NoStep
  /\ current # NoItem => chain.id = current.id

\* The marker is set on the first step of a chain that has advanced to a
\* later step, with an item waiting behind the current one.
C37_Witness ==
  /\ processingStep # NoStep
  /\ current # NoItem /\ processingStep = current.step
  /\ Len(chain.invoked) >= 2
  /\ chain.invoked[Len(chain.invoked)] # processingStep
  /\ items # <<>>

(***************************************************************************)
(* C38: after every completed operation of the queue (enqueue, done or     *)
(* clear, the notifications that call done or enqueue from inside the      *)
(* operation included), a queue with no current item has no pending item,  *)
(* and no item is at once current and pending, nor pending twice.          *)
(***************************************************************************)
C38_QueueWellFormed ==
  /\ current = NoItem => items = <<>>
  /\ \A i \in 1..Len(items) :
       /\ items[i] # NoItem
       /\ items[i].id # current.id
       /\ \A j \in 1..Len(items) : items[i].id = items[j].id => i = j

\* A done whose notifications call done again drains two items and leaves
\* the queue with no current and no pending item.
C38_Witness ==
  /\ Len(events) >= 3
  /\ events[1].ev = "done" /\ events[1].src = "done"
  /\ Cardinality(UpdatesOf(events)) = 2
  /\ current = NoItem /\ items = <<>>

\* An enqueue on an idle queue whose notification enqueues one more item
\* leaves the first item current and the second pending.
C38_WitnessReentrantEnqueue ==
  /\ Len(events) >= 2
  /\ events[1].ev = "enqueue" /\ events[1].src = "enqueue"
  /\ Cardinality(UpdatesOf(events)) = 1
  /\ current # NoItem /\ Len(items) = 1
  /\ items[1].id = current.id + 1

====
